---- MODULE Spec2Model ----
(***************************************************************************)
(* Model of wger/nutrition/views/ingredient.py: the cached single-item     *)
(* lookup (view), the moderation handlers (accept, decline), the pending   *)
(* list, and the generic create / edit / delete views that change the      *)
(* records those handlers read.                                            *)
(*                                                                         *)
(* A handler is an operator from the world it runs in (storage, cache,     *)
(* notifications sent) and its inputs to the world it leaves and the       *)
(* response it returns.                                                    *)
(*                                                                         *)
(* Spec      every handler runs alone, one whole handler per step.         *)
(* RaceSpec  accept and decline requests run statement by statement and    *)
(*           interleave freely, as concurrent web requests do.             *)
(***************************************************************************)
EXTENDS Integers, Sequences, FiniteSets, Bags, TLC

\* ------------------------------------------------------------------ bounds
MaxId == 2
MaxDay == 2
MaxMail == 2
NumReq == 2

Ids == 1..MaxId

\* --------------------------------------------------------------- constants
STATUS_PENDING == "pending"
STATUS_ACCEPTED == "accepted"
STATUS_DECLINED == "declined"

\* The kinds of response a handler gives.
HTTP_OK == "ok"
HTTP_REDIRECT == "redirect"
HTTP_FORBIDDEN == "forbidden"
HTTP_NOT_FOUND == "not found"

\* The permissions the views name.
ADD_INGREDIENT == "nutrition.add_ingredient"
CHANGE_INGREDIENT == "nutrition.change_ingredient"
DELETE_INGREDIENT == "nutrition.delete_ingredient"

\* A caller is the set of permissions it holds; the anonymous caller holds none.
Users == {{}, {ADD_INGREDIENT}, {CHANGE_INGREDIENT, DELETE_INGREDIENT}}

MSG_NONE == "none"
MSG_ACCEPTED == "Ingredient was successfully added to the general database"
MSG_DECLINED == "Ingredient was successfully marked as rejected"

VARIABLES
    storage,    \* persistent storage: pk -> Ingredient row, for the rows that exist
    next_id,    \* the primary key the next created row gets
    cache,      \* the shared cache: key -> cached Ingredient snapshot
    outbox,     \* notifications sent so far, counted per Ingredient pk
    clock,      \* today's date
    reqs        \* RaceSpec: the bag of accept / decline requests in flight

vars == <<storage, next_id, cache, outbox, clock, reqs>>

\* The world a handler runs in.
World == [storage |-> storage, next_id |-> next_id, cache |-> cache,
          outbox |-> outbox, clock |-> clock]

\* ----------------------------------------------------------------- helpers
\* The function with no key: an empty table, an empty cache.
EmptyFcn == [x \in {} |-> x]

\* The function f with key k (re)bound to v.
Put(f, k, v) == [x \in (DOMAIN f) \cup {k} |-> IF x = k THEN v ELSE f[x]]

\* The function f without key k.
Drop(f, k) == [x \in (DOMAIN f) \ {k} |-> f[x]]

\* cache_mapper.get_ingredient_key: the key is derived from the pk alone,
\* whether it is handed a pk or an Ingredient.
get_ingredient_key(pk) == <<"ingredient", pk>>

\* Mutant: a lookup that never finds its entry (a key that does not match the
\* one cache.set used).
cache_get_Missing(c, key) == <<>>

\* cache.get: the cached value, or nothing.  <<>> stands for None.
cache_get(c, key) == IF key \in DOMAIN c THEN <<c[key]>> ELSE <<>>

\* cache.set
cache_set(c, key, value) == Put(c, key, value)

\* Mutant: get_or_create instead of get_object_or_404.
get_object_or_404_Creating(db, pk) ==
    IF pk \in DOMAIN db THEN <<db[pk]>>
    ELSE <<[id |-> pk, status |-> STATUS_PENDING, creation_date |-> 1]>>

\* get_object_or_404(Ingredient, pk=pk): the row, or <<>> for Http404 raised.
get_object_or_404(db, pk) == IF pk \in DOMAIN db THEN <<db[pk]>> ELSE <<>>

\* Mutant: the gate only asks for a caller that holds some permission.
permission_required_Any(user, perm) == user # {}

\* @permission_required(perm) and PermissionRequiredMixin: the caller holds perm.
permission_required(user, perm) == perm \in user

\* ingredient.save(): writes every field of the instance to the row with its pk.
ModelSave(db, ingredient) == Put(db, ingredient.id, ingredient)

\* ingredient.delete()
ModelDelete(db, pk) == Drop(db, pk)

\* ingredient.send_email(request): one notification for this ingredient.
send_email(box, ingredient) == [box EXCEPT ![ingredient.id] = @ + 1]

\* The number of notifications sent so far.
RECURSIVE SumUpTo(_, _)
SumUpTo(box, n) == IF n = 0 THEN 0 ELSE box[n] + SumUpTo(box, n - 1)

Sent(box) == SumUpTo(box, MaxId)

\* ingredient.get_absolute_url()
get_absolute_url(ingredient) == <<"ingredient", ingredient.id>>

\* Mutant: accept written with decline's status.
SetAccepted_Declined(ingredient) == [ingredient EXCEPT !.status = STATUS_DECLINED]

\* Mutant: accept guarded by the current status.
SetAccepted_Guarded(ingredient) ==
    IF ingredient.status = STATUS_PENDING
    THEN [ingredient EXCEPT !.status = STATUS_ACCEPTED] ELSE ingredient

\* ingredient.status = Ingredient.STATUS_ACCEPTED
SetAccepted(ingredient) == [ingredient EXCEPT !.status = STATUS_ACCEPTED]

\* Mutant: decline without the status assignment.
SetDeclined_Forgotten(ingredient) == ingredient

\* ingredient.status = Ingredient.STATUS_DECLINED
SetDeclined(ingredient) == [ingredient EXCEPT !.status = STATUS_DECLINED]

NoBody == <<>>
NoLocation == <<>>

\* What a handler returns: the kind of response, the message queued for the
\* caller, the records rendered, the redirect target, and the storage queries
\* the request made.
Response(code, message, body, location, queries) ==
    [code |-> code, message |-> message, body |-> body,
     location |-> location, queries |-> queries]

Refused == Response(HTTP_FORBIDDEN, MSG_NONE, NoBody, NoLocation, 0)
NotFound == Response(HTTP_NOT_FOUND, MSG_NONE, NoBody, NoLocation, 1)

\* A handler's outcome: the world it leaves and the response it returns.
Outcome(w, resp) == [world |-> w, response |-> resp]

\* -------------------------------------------------------------------- Init
Init ==
    /\ storage = EmptyFcn
    /\ next_id = 1
    /\ cache = EmptyFcn
    /\ outbox = [i \in Ids |-> 0]
    /\ clock = 1
    /\ reqs = EmptyBag

\* ------------------------------------------------------------ the handlers
\* Mutant: a lookup that, on a hit, refreshes a snapshot that differs from the row.
view_Revalidating(w, id) ==
    LET hit == cache_get(w.cache, get_ingredient_key(id))
        found == get_object_or_404(w.storage, id)
    IN  IF hit # <<>> /\ found # <<>>
        THEN Outcome([w EXCEPT !.cache = cache_set(@, get_ingredient_key(id), found[1])],
                     Response(HTTP_OK, MSG_NONE, found, NoLocation, 1))
        ELSE IF hit # <<>>
        THEN Outcome(w, Response(HTTP_OK, MSG_NONE, hit, NoLocation, 0))
        ELSE IF found = <<>>
        THEN Outcome(w, NotFound)
        ELSE Outcome([w EXCEPT !.cache = cache_set(@, get_ingredient_key(found[1].id), found[1])],
                     Response(HTTP_OK, MSG_NONE, found, NoLocation, 1))

\* view(request, id): the cached single-item lookup.
view(w, id) ==
    LET hit == cache_get(w.cache, get_ingredient_key(id))
        found == get_object_or_404(w.storage, id)
    IN  IF hit # <<>>
        THEN Outcome(w, Response(HTTP_OK, MSG_NONE, hit, NoLocation, 0))
        ELSE IF found = <<>>
        THEN Outcome(w, NotFound)
        ELSE Outcome([w EXCEPT !.cache = cache_set(@, get_ingredient_key(found[1].id), found[1])],
                     Response(HTTP_OK, MSG_NONE, found, NoLocation, 1))

\* accept(request, pk) behind @permission_required('nutrition.add_ingredient').
accept(w, user, pk) ==
    LET found == get_object_or_404(w.storage, pk)
        ingredient == SetAccepted(found[1])
    IN  IF ~permission_required(user, ADD_INGREDIENT)
        THEN Outcome(w, Refused)
        ELSE IF found = <<>>
        THEN Outcome(w, NotFound)
        ELSE Outcome([w EXCEPT !.storage = ModelSave(@, ingredient),
                               !.outbox = send_email(@, ingredient)],
                     Response(HTTP_REDIRECT, MSG_ACCEPTED, NoBody, get_absolute_url(ingredient), 2))

\* decline(request, pk) behind @permission_required('nutrition.add_ingredient').
decline(w, user, pk) ==
    LET found == get_object_or_404(w.storage, pk)
        ingredient == SetDeclined(found[1])
    IN  IF ~permission_required(user, ADD_INGREDIENT)
        THEN Outcome(w, Refused)
        ELSE IF found = <<>>
        THEN Outcome(w, NotFound)
        ELSE Outcome([w EXCEPT !.storage = ModelSave(@, ingredient)],
                     Response(HTTP_REDIRECT, MSG_DECLINED, NoBody, get_absolute_url(ingredient), 2))

\* Ingredient.objects.filter(status=...): the rows with that status.
filter_status(db, status) == {db[pk] : pk \in {p \in DOMAIN db : db[p].status = status}}

\* .order_by('-creation_date'): the database hands out a row with the latest
\* creation date first, then orders the rest the same way; among rows created
\* on the same date it picks any.  The value is the set of listings it may return.
RECURSIVE order_by_creation_date_desc(_)
order_by_creation_date_desc(rows) ==
    IF rows = {} THEN {<<>>}
    ELSE UNION {{<<r>> \o q : q \in order_by_creation_date_desc(rows \ {r})} :
                r \in {x \in rows : \A y \in rows : x.creation_date >= y.creation_date}}

\* Mutant: the listing without the status filter.
get_queryset_Unfiltered(db) == order_by_creation_date_desc({db[pk] : pk \in DOMAIN db})

\* PendingIngredientListView.get_queryset
get_queryset(db) == order_by_creation_date_desc(filter_status(db, STATUS_PENDING))

\* PendingIngredientListView, behind 'nutrition.change_ingredient': the
\* outcomes it may have, one per listing the database may return.
PendingIngredientListView(w, user) ==
    IF ~permission_required(user, CHANGE_INGREDIENT)
    THEN {Outcome(w, Refused)}
    ELSE {Outcome(w, Response(HTTP_OK, MSG_NONE, q, NoLocation, 1)) : q \in get_queryset(w.storage)}

\* IngredientCreateView: demo users are refused; a submitted ingredient gets a
\* fresh pk, today's date and the pending status.
IngredientCreateView(w, is_temporary) ==
    LET ingredient == [id |-> w.next_id, status |-> STATUS_PENDING, creation_date |-> w.clock]
    IN  IF is_temporary
        THEN Outcome(w, Refused)
        ELSE Outcome([w EXCEPT !.storage = ModelSave(@, ingredient), !.next_id = @ + 1],
                     Response(HTTP_REDIRECT, MSG_NONE, NoBody, get_absolute_url(ingredient), 1))

\* IngredientEditView, behind 'nutrition.change_ingredient': the form's fields
\* (name, nutritional values) are opaque here and not part of the modelled
\* row, so the row is saved with its status and creation date as loaded.
IngredientEditView(w, user, pk) ==
    LET found == get_object_or_404(w.storage, pk)
    IN  IF ~permission_required(user, CHANGE_INGREDIENT)
        THEN Outcome(w, Refused)
        ELSE IF found = <<>>
        THEN Outcome(w, NotFound)
        ELSE Outcome([w EXCEPT !.storage = ModelSave(@, found[1])],
                     Response(HTTP_REDIRECT, MSG_NONE, NoBody, get_absolute_url(found[1]), 2))

\* IngredientDeleteView, behind 'nutrition.delete_ingredient'.
IngredientDeleteView(w, user, pk) ==
    LET found == get_object_or_404(w.storage, pk)
    IN  IF ~permission_required(user, DELETE_INGREDIENT)
        THEN Outcome(w, Refused)
        ELSE IF found = <<>>
        THEN Outcome(w, NotFound)
        ELSE Outcome([w EXCEPT !.storage = ModelDelete(@, pk)],
                     Response(HTTP_REDIRECT, MSG_NONE, NoBody, NoLocation, 2))

\* ------------------------------------------------- handlers, run alone
\* The world becomes the one the handler left.
Apply(out) ==
    /\ storage' = out.world.storage
    /\ next_id' = out.world.next_id
    /\ cache' = out.world.cache
    /\ outbox' = out.world.outbox
    /\ clock' = out.world.clock
    /\ UNCHANGED reqs

ViewStep(id) == Apply(view(World, id))

AcceptStep(user, pk) ==
    /\ Sent(accept(World, user, pk).world.outbox) <= MaxMail
    /\ Apply(accept(World, user, pk))

DeclineStep(user, pk) == Apply(decline(World, user, pk))

PendingListStep(user) == \E out \in PendingIngredientListView(World, user) : Apply(out)

CreateStep(is_temporary) ==
    /\ next_id <= MaxId
    /\ Apply(IngredientCreateView(World, is_temporary))

EditStep(user, pk) == Apply(IngredientEditView(World, user, pk))

DeleteStep(user, pk) == Apply(IngredientDeleteView(World, user, pk))

\* The cache store drops an entry whose time is up.
CacheExpire(key) ==
    /\ key \in DOMAIN cache
    /\ cache' = Drop(cache, key)
    /\ UNCHANGED <<storage, next_id, outbox, clock, reqs>>

\* A day passes.
Tick ==
    /\ clock < MaxDay
    /\ clock' = clock + 1
    /\ UNCHANGED <<storage, next_id, cache, outbox, reqs>>

Next ==
    \/ \E id \in Ids : ViewStep(id)
    \/ \E u \in Users, pk \in Ids : AcceptStep(u, pk)
    \/ \E u \in Users, pk \in Ids : DeclineStep(u, pk)
    \/ \E u \in Users : PendingListStep(u)
    \/ \E t \in BOOLEAN : CreateStep(t)
    \/ \E u \in Users, pk \in Ids : EditStep(u, pk)
    \/ \E u \in Users, pk \in Ids : DeleteStep(u, pk)
    \/ \E pk \in Ids : CacheExpire(get_ingredient_key(pk))
    \/ Tick

Spec == Init /\ [][Next]_vars

\* ------------------------------------- accept / decline, statement by statement
\* One request in flight: its handler, its pk, the statement it is at, and
\* its local variable ingredient.
Request(op, pk, pc, ingredient) == [op |-> op, pk |-> pk, pc |-> pc, ingredient |-> ingredient]

SetStatus(op, ingredient) ==
    IF op = "accept" THEN SetAccepted(ingredient) ELSE SetDeclined(ingredient)

\* The bag b with one copy of q replaced by one copy of p.
Moved(b, q, p) == (b (-) SetToBag({q})) (+) SetToBag({p})

\* A request arrives and @permission_required('nutrition.add_ingredient') runs:
\* a refused request is answered at once.
RequestStep(op, user, pk) ==
    /\ BagCardinality(reqs) < NumReq
    /\ reqs' = IF permission_required(user, ADD_INGREDIENT)
               THEN reqs (+) SetToBag({Request(op, pk, "load", <<>>)})
               ELSE reqs
    /\ UNCHANGED <<storage, next_id, cache, outbox, clock>>

\* ingredient = get_object_or_404(Ingredient, pk=pk), answered with NotFound at
\* once when there is no row; then ingredient.status = ..., on the local copy.
LoadStep(q) ==
    LET found == get_object_or_404(storage, q.pk)
    IN  /\ q.pc = "load"
        /\ reqs' = IF found = <<>>
                   THEN reqs (-) SetToBag({q})
                   ELSE Moved(reqs, q, Request(q.op, q.pk, "save", <<SetStatus(q.op, found[1])>>))
        /\ UNCHANGED <<storage, next_id, cache, outbox, clock>>

\* Mutant: a save that writes only while the row is still pending.
SaveStep_Guarded(q) ==
    /\ q.pc = "save"
    /\ storage' = IF q.pk \in DOMAIN storage /\ storage[q.pk].status = STATUS_PENDING
                  THEN ModelSave(storage, q.ingredient[1]) ELSE storage
    /\ reqs' = Moved(reqs, q, [q EXCEPT !.pc = IF q.op = "accept" THEN "send_email" ELSE "respond"])
    /\ UNCHANGED <<next_id, cache, outbox, clock>>

\* ingredient.save()
SaveStep(q) ==
    /\ q.pc = "save"
    /\ storage' = ModelSave(storage, q.ingredient[1])
    /\ reqs' = Moved(reqs, q, [q EXCEPT !.pc = IF q.op = "accept" THEN "send_email" ELSE "respond"])
    /\ UNCHANGED <<next_id, cache, outbox, clock>>

\* ingredient.send_email(request), in accept only
SendEmailStep(q) ==
    /\ q.pc = "send_email"
    /\ Sent(outbox) < MaxMail
    /\ outbox' = send_email(outbox, q.ingredient[1])
    /\ reqs' = Moved(reqs, q, [q EXCEPT !.pc = "respond"])
    /\ UNCHANGED <<storage, next_id, cache, clock>>

\* messages.success(request, ...) and return HttpResponseRedirect(...): the
\* request leaves.
RespondStep(q) ==
    /\ q.pc = "respond"
    /\ reqs' = reqs (-) SetToBag({q})
    /\ UNCHANGED <<storage, next_id, cache, outbox, clock>>

RaceNext ==
    \/ \E t \in BOOLEAN : CreateStep(t)
    \/ \E op \in {"accept", "decline"}, u \in Users, pk \in Ids : RequestStep(op, u, pk)
    \/ \E q \in BagToSet(reqs) : LoadStep(q)
    \/ \E q \in BagToSet(reqs) : SaveStep(q)
    \/ \E q \in BagToSet(reqs) : SendEmailStep(q)
    \/ \E q \in BagToSet(reqs) : RespondStep(q)

RaceSpec == Init /\ [][RaceNext]_vars

\* ------------------------------------------------------------------ claims
Privileged(user) == ADD_INGREDIENT \in user

IsPending(pk) == pk \in DOMAIN storage /\ storage[pk].status = STATUS_PENDING

PendingRows == {storage[pk] : pk \in {p \in DOMAIN storage : storage[p].status = STATUS_PENDING}}

TargetStatus(op) == IF op = "accept" THEN STATUS_ACCEPTED ELSE STATUS_DECLINED

\* C1: a privileged accept(pk) of a pending record, run alone, leaves that
\* record accepted, sends exactly one notification, for that record, and
\* changes no other field of it, no other record and nothing else.
C1_AcceptPending ==
    \A u \in Users, pk \in Ids :
        (Privileged(u) /\ IsPending(pk))
        => LET out == accept(World, u, pk) IN
           /\ out.response.code = HTTP_REDIRECT
           /\ out.world = [World EXCEPT
                             !.storage = [storage EXCEPT ![pk].status = STATUS_ACCEPTED],
                             !.outbox = [outbox EXCEPT ![pk] = outbox[pk] + 1]]

\* A record is accepted with exactly one notification out for it, while
\* another record is still pending.
C1_Witness ==
    \E pk \in DOMAIN storage :
        /\ storage[pk].status = STATUS_ACCEPTED
        /\ outbox[pk] = 1
        /\ \E other \in Ids \ {pk} : IsPending(other) /\ outbox[other] = 0

C3_MissingRecord ==
    \A u \in Users, pk \in Ids :
        (Privileged(u) /\ pk \notin DOMAIN storage)
        => /\ accept(World, u, pk) = Outcome(World, NotFound)
           /\ decline(World, u, pk) = Outcome(World, NotFound)

\* Storage holds a record, the cache an entry and a notification is out,
\* while some pk has no record: a deleted one, still cached.
C3_Witness ==
    \E pk \in Ids :
        /\ pk \notin DOMAIN storage
        /\ get_ingredient_key(pk) \in DOMAIN cache
        /\ DOMAIN storage # {}
        /\ Sent(outbox) > 0

\* C4: accept(pk) and decline(pk) by a caller without the 'add ingredient'
\* privilege are refused with nothing changed, for every pk and every status.
C4_Unprivileged ==
    \A u \in Users, pk \in Ids :
        ~Privileged(u)
        => /\ accept(World, u, pk) = Outcome(World, Refused)
           /\ decline(World, u, pk) = Outcome(World, Refused)

\* Storage holds a pending record and one that is no longer pending, for an
\* unprivileged caller to try.
C4_Witness ==
    \E p, q \in DOMAIN storage : IsPending(p) /\ storage[q].status # STATUS_PENDING

\* C5: lookup(id) answers with a record whose identifier is id and that
\* storage holds, or answers NotFound when storage holds no such record.
C5_LookupMatchesStorage ==
    \A id \in Ids :
        LET resp == view(World, id).response IN
        \/ /\ resp.code = HTTP_OK
           /\ resp.body[1].id = id
           /\ id \in DOMAIN storage
        \/ /\ resp.code = HTTP_NOT_FOUND
           /\ id \notin DOMAIN storage

\* C6: a successful lookup(id) leaves what it returned in the cache, so that
\* the next lookup(id) returns the same data with no storage read; and a
\* lookup that finds an entry returns it and leaves the cache as it is.
C6_CacheHit ==
    \A id \in Ids :
        LET key == get_ingredient_key(id)
            first == view(World, id)
            second == view(first.world, id)
        IN  /\ first.response.code = HTTP_OK
                => /\ second.response.code = HTTP_OK
                   /\ second.response.body = first.response.body
                   /\ second.response.queries = 0
                   /\ second.world = first.world
            /\ key \in DOMAIN cache
                => /\ first.response.body = <<cache[key]>>
                   /\ first.response.queries = 0
                   /\ first.world = World

\* A lookup has cached a record: the next lookup is answered from the cache.
C6_Witness ==
    \E id \in Ids :
        /\ get_ingredient_key(id) \in DOMAIN cache
        /\ id \in DOMAIN storage
        /\ view(World, id).response.queries = 0

\* C7: the pending list holds exactly the pending records, each once, no
\* record before one created later, and listing changes no state.
C7_PendingList ==
    \A u \in Users :
        CHANGE_INGREDIENT \in u
        => \A out \in PendingIngredientListView(World, u) :
            LET q == out.response.body IN
            /\ {q[i] : i \in DOMAIN q} = PendingRows
            /\ Len(q) = Cardinality(PendingRows)
            /\ \A i, j \in DOMAIN q : i < j => q[i].creation_date >= q[j].creation_date
            /\ out.world = World

\* Two records created on different days are pending, and the list gives the
\* later one first.
C7_Witness ==
    \E out \in PendingIngredientListView(World, {CHANGE_INGREDIENT}) :
        /\ Len(out.response.body) = 2
        /\ out.response.body[1].creation_date > out.response.body[2].creation_date

C10_StaleCache ==
    /\ \A u \in Users, pk \in Ids :
        /\ accept(World, u, pk).world.cache = cache
        /\ decline(World, u, pk).world.cache = cache
    /\ \A id \in Ids :
        LET key == get_ingredient_key(id)
            out == view(World, id)
        IN  /\ out.world.cache # cache => key \notin DOMAIN cache
            /\ key \in DOMAIN cache => out.response.body = <<cache[key]>>

\* A record was cached and its status changed afterwards: the lookup returns
\* the snapshot with the old status.
C10_Witness ==
    \E id \in DOMAIN storage :
        /\ get_ingredient_key(id) \in DOMAIN cache
        /\ view(World, id).response.body[1].status # storage[id].status

====
